---- MODULE Spec2Model ----
(***************************************************************************)
(* NaivePortfolio (src/xquant/portfolio.py): the Signal -> Order -> Fill   *)
(* accounting engine of the backtester, with its time-indexed ledger.      *)
(*                                                                         *)
(* Money is held as an integer number of 1/Scale currency units, so that   *)
(* the commission 3.0/10000 * cost of an integer price and quantity is     *)
(* exact; Python's float rounding is not modelled.  A Python dict is a     *)
(* function from its keys (strings) to its values.                         *)
(***************************************************************************)
EXTENDS Integers, Sequences, FiniteSets, TLC

VARIABLES
    all_positions,       \* self.all_positions: list of dicts
    current_postitions,  \* self.current_postitions: dict symbol -> quantity
    all_holdings,        \* self.all_holdings: list of dicts
    current_holdings,    \* self.current_holdings: dict
    events,              \* self.events: the FIFO queue orders are put on
    latest_bars,         \* self.bars: latest bar of each symbol (datetime, close)
    equity_curve,        \* self.equity_curve: unset until created
    n_timeindex,         \* history: number of update_timeindex calls made
    net_filled,          \* history: per symbol, +q per BUY fill and -q per SELL
                         \* fill applied since the last update_timeindex call
    n_calls,             \* history: number of calls made on the portfolio and
                         \* bars delivered by the bar source
    pc                   \* position of the caller in a scripted scenario

\* what the handlers read and write
state == <<all_positions, current_postitions, all_holdings, current_holdings,
           events, latest_bars, equity_curve, n_timeindex, net_filled>>

vars == <<all_positions, current_postitions, all_holdings, current_holdings,
          events, latest_bars, equity_curve, n_timeindex, net_filled,
          n_calls, pc>>

(***************************************************************************)
(* Bounds of the model and constants of the program.                       *)
(***************************************************************************)
MaxCalls == 5      \* longest sequence of calls and bar deliveries explored

Scale == 10000           \* money units per currency unit
initial_capital == 100000
start_date == 0
mkt_quantity == 100
CommissionNum == 3       \* commission = 3.0/10000 * cost
CommissionDen == 10000

symbol_list == <<"AAPL", "MSFT">>
SymbolSet == {symbol_list[i] : i \in 1..Len(symbol_list)}
Prices == {10, 12}
\* the closes of the first bar of the data, one bar after start_date
FirstClose == [s \in SymbolSet |-> IF s = symbol_list[1] THEN 10 ELSE 12]
Quantities == {50, 100}
Directions == {"BUY", "SELL", "HOLD"}
SignalTypes == {"LONG", "SHORT", "EXIT"}

FillEvents == [e_type : {"FILL"}, symbol : SymbolSet,
               direction : Directions, quantity : Quantities]
SignalEvents == [e_type : {"SIGNAL"}, symbol : SymbolSet,
                 signal_type : SignalTypes]
MarketEvents == {[e_type |-> "MARKET"]}

None == [e_type |-> "None"]

OrderEvent(symbol, order_type, quantity, direction) ==
    [e_type |-> "ORDER", symbol |-> symbol, order_type |-> order_type,
     quantity |-> quantity, direction |-> direction]

abs(n) == IF n < 0 THEN -n ELSE n

RECURSIVE SumOver(_, _)
\* sum of f[s] over the symbols in S
SumOver(f, S) ==
    IF S = {} THEN 0
    ELSE LET s == CHOOSE x \in S : TRUE IN f[s] + SumOver(f, S \ {s})

\* dict((k,v) for k,v in [(s,0) for s in self.symbol_list])
ZeroDict == [s \in SymbolSet |-> 0]

\* the close price of the latest bar of a symbol: get_latest_bars(sym)[0][5]
Close(sym) == latest_bars[sym].close

(***************************************************************************)
(* Construction                                                            *)
(***************************************************************************)
construct_all_positions ==
    << ZeroDict @@ ("datetime" :> start_date) >>

construct_all_holdings ==
    << ZeroDict @@ ("datetime" :> start_date)
                @@ ("cash" :> initial_capital * Scale)
                @@ ("commission" :> 0)
                @@ ("total" :> initial_capital * Scale) >>

construct_current_holdings ==
    ZeroDict @@ ("datetime" :> start_date)
             @@ ("cash" :> initial_capital * Scale)
             @@ ("commission" :> 0)
             @@ ("total" :> initial_capital * Scale)

Init ==
    /\ all_positions = construct_all_positions
    /\ current_postitions = ZeroDict
    /\ all_holdings = construct_all_holdings
    /\ current_holdings = construct_current_holdings
    /\ events = <<>>
    /\ latest_bars = [s \in SymbolSet |->
                        [datetime |-> start_date + 1, close |-> FirstClose[s]]]
    /\ equity_curve = <<>>
    /\ n_timeindex = 0
    /\ net_filled = ZeroDict
    /\ n_calls = 0
    /\ pc = [stage |-> 0, symbol |-> ""]

(***************************************************************************)
(* The bar source delivers the next bar of every symbol.                   *)
(***************************************************************************)
update_bars(closes) ==
    /\ latest_bars' = [s \in SymbolSet |->
                         [datetime |-> latest_bars[s].datetime + 1,
                          close |-> closes[s]]]
    /\ UNCHANGED <<all_positions, current_postitions, all_holdings,
                   current_holdings, events, equity_curve, n_timeindex,
                   net_filled>>

(***************************************************************************)
(* update_timeindex                                                        *)
(***************************************************************************)
\* dp: the position entry appended
NewPositions ==
    [s \in SymbolSet |-> current_postitions[s]]
        @@ ("datetime" :> latest_bars[symbol_list[1]].datetime)

\* market_value taken from the cost basis booked by the fills instead of
\* position * latest close
market_value_CostBasis(s) == current_holdings[s]

\* market_value = self.current_postitions[s] * bars[s][0][5]
market_value(s) == current_postitions[s] * Close(s) * Scale

\* NewHoldings without the line dh['total'] += market_value
NewHoldings_NoMarkToMarket ==
    [s \in SymbolSet |-> market_value(s)]
        @@ ("datetime" :> latest_bars[symbol_list[1]].datetime)
        @@ ("cash" :> current_holdings["cash"])
        @@ ("commission" :> current_holdings["commission"])
        @@ ("total" :> current_holdings["total"])

\* NewHoldings dated from current_holdings instead of the latest bar
NewHoldings_StaleDate ==
    [s \in SymbolSet |-> market_value(s)]
        @@ ("datetime" :> current_holdings["datetime"])
        @@ ("cash" :> current_holdings["cash"])
        @@ ("commission" :> current_holdings["commission"])
        @@ ("total" :> current_holdings["total"]
                          + SumOver([s \in SymbolSet |-> market_value(s)], SymbolSet))

\* dh: the holdings entry appended
NewHoldings ==
    [s \in SymbolSet |-> market_value(s)]
        @@ ("datetime" :> latest_bars[symbol_list[1]].datetime)
        @@ ("cash" :> current_holdings["cash"])
        @@ ("commission" :> current_holdings["commission"])
        @@ ("total" :> current_holdings["total"]
                          + SumOver([s \in SymbolSet |-> market_value(s)], SymbolSet))

\* update_timeindex without self.all_positions.append(dp)
update_timeindex_NoPositions(event) ==
    /\ all_positions' = all_positions
    /\ all_holdings' = Append(all_holdings, NewHoldings)
    /\ n_timeindex' = n_timeindex + 1
    /\ net_filled' = ZeroDict
    /\ UNCHANGED <<current_postitions, current_holdings, events, latest_bars,
                   equity_curve>>

\* update_timeindex marking current_holdings to market in place (dh bound to
\* self.current_holdings itself instead of a new dict)
update_timeindex_InPlace(event) ==
    /\ all_positions' = Append(all_positions, NewPositions)
    /\ all_holdings' = Append(all_holdings, NewHoldings)
    /\ current_holdings' = NewHoldings
    /\ n_timeindex' = n_timeindex + 1
    /\ net_filled' = ZeroDict
    /\ UNCHANGED <<current_postitions, events, latest_bars, equity_curve>>

update_timeindex(event) ==
    /\ all_positions' = Append(all_positions, NewPositions)
    /\ all_holdings' = Append(all_holdings, NewHoldings)
    /\ n_timeindex' = n_timeindex + 1
    /\ net_filled' = ZeroDict
    /\ UNCHANGED <<current_postitions, current_holdings, events, latest_bars,
                   equity_curve>>

(***************************************************************************)
(* update_fill                                                             *)
(***************************************************************************)
fill_dir(direction) ==
    IF direction = "SELL" THEN -1
    ELSE IF direction = "BUY" THEN 1
    ELSE 0

\* update_position_from_fill adding the quantity whatever the direction
update_position_from_fill_Unsigned(fill) ==
    [current_postitions EXCEPT ![fill.symbol] = @ + fill.quantity]

\* self.current_postitions[fill.symbol] += fill_dir*fill.quantity
update_position_from_fill(fill) ==
    [current_postitions EXCEPT
        ![fill.symbol] = @ + fill_dir(fill.direction) * fill.quantity]

\* cost = fill_dir * fill_cost * fill.quantity
FillCost(fill) ==
    fill_dir(fill.direction) * (Close(fill.symbol) * Scale) * fill.quantity

\* commission = 3.0/10000 * cost
Commission(cost) == (CommissionNum * cost) \div CommissionDen

\* update_holdings_from_fill accruing the commission without taking it out
\* of cash and total
update_holdings_from_fill_FeeNotPaid(fill) ==
    LET cost == FillCost(fill)
        commission == Commission(cost)
    IN [current_holdings EXCEPT
          ![fill.symbol] = @ + cost,
          !["commission"] = @ + commission,
          !["cash"] = @ - cost,
          !["total"] = @ - cost]

\* update_holdings_from_fill keeping total as cash plus the symbol values:
\* a fill lowers it by the commission only
update_holdings_from_fill_TotalNetOfFee(fill) ==
    LET cost == FillCost(fill)
        commission == Commission(cost)
    IN [current_holdings EXCEPT
          ![fill.symbol] = @ + cost,
          !["commission"] = @ + commission,
          !["cash"] = @ - (cost + commission),
          !["total"] = @ - commission]

update_holdings_from_fill(fill) ==
    LET cost == FillCost(fill)
        commission == Commission(cost)
    IN [current_holdings EXCEPT
          ![fill.symbol] = @ + cost,
          !["commission"] = @ + commission,
          !["cash"] = @ - (cost + commission),
          !["total"] = @ - (cost + commission)]

\* the signed quantity the ledger is said to gain by a fill
SignedQuantity(fill) ==
    CASE fill.direction = "BUY" -> fill.quantity
      [] fill.direction = "SELL" -> 0 - fill.quantity
      [] OTHER -> 0

\* update_fill when the last history entry is the current_postitions dict
\* itself (appended without a copy), so that a fill writes through to it
update_fill_Aliased(event) ==
    IF event.e_type = "FILL"
    THEN /\ current_postitions' = update_position_from_fill(event)
         /\ current_holdings' = update_holdings_from_fill(event)
         /\ net_filled' = [net_filled EXCEPT
                             ![event.symbol] = @ + SignedQuantity(event)]
         /\ all_positions' =
               IF Len(all_positions) > 1
               THEN [all_positions EXCEPT
                       ![Len(all_positions)] =
                           [k \in DOMAIN @ |->
                               IF k = "datetime" THEN @[k]
                               ELSE update_position_from_fill(event)[k]]]
               ELSE all_positions
         /\ UNCHANGED <<all_holdings, events, latest_bars,
                        equity_curve, n_timeindex>>
    ELSE UNCHANGED state

update_fill(event) ==
    IF event.e_type = "FILL"
    THEN /\ current_postitions' = update_position_from_fill(event)
         /\ current_holdings' = update_holdings_from_fill(event)
         /\ net_filled' = [net_filled EXCEPT
                             ![event.symbol] = @ + SignedQuantity(event)]
         /\ UNCHANGED <<all_positions, all_holdings, events, latest_bars,
                        equity_curve, n_timeindex>>
    ELSE UNCHANGED state

(***************************************************************************)
(* update_signal                                                           *)
(***************************************************************************)
\* generate_naive_order closing a position with the fixed lot size
generate_naive_order_FixedExit(signal) ==
    LET symbol == signal.symbol
        direction == signal.signal_type
        cur_quantity == current_postitions[symbol]
        order_type == "MKT"
        o1 == IF direction = "LONG" /\ cur_quantity = 0
              THEN OrderEvent(symbol, order_type, mkt_quantity, "BUY")
              ELSE None
        o2 == IF direction = "SHORT" /\ cur_quantity = 0
              THEN OrderEvent(symbol, order_type, mkt_quantity, "SELL")
              ELSE o1
        o3 == IF direction = "EXIT" /\ cur_quantity > 0
              THEN OrderEvent(symbol, order_type, mkt_quantity, "SELL")
              ELSE o2
        o4 == IF direction = "EXIT" /\ cur_quantity < 0
              THEN OrderEvent(symbol, order_type, mkt_quantity, "BUY")
              ELSE o3
    IN o4

\* generate_naive_order going long without testing cur_quantity == 0
generate_naive_order_NoFlatCheck(signal) ==
    LET symbol == signal.symbol
        direction == signal.signal_type
        cur_quantity == current_postitions[symbol]
        order_type == "MKT"
        o1 == IF direction = "LONG"
              THEN OrderEvent(symbol, order_type, mkt_quantity, "BUY")
              ELSE None
        o2 == IF direction = "SHORT" /\ cur_quantity = 0
              THEN OrderEvent(symbol, order_type, mkt_quantity, "SELL")
              ELSE o1
        o3 == IF direction = "EXIT" /\ cur_quantity > 0
              THEN OrderEvent(symbol, order_type, abs(cur_quantity), "SELL")
              ELSE o2
        o4 == IF direction = "EXIT" /\ cur_quantity < 0
              THEN OrderEvent(symbol, order_type, abs(cur_quantity), "BUY")
              ELSE o3
    IN o4

\* generate_naive_order answering EXIT on the side the position is already
\* on (the two directions of the EXIT branches exchanged)
generate_naive_order_ExitSameSide(signal) ==
    LET symbol == signal.symbol
        direction == signal.signal_type
        cur_quantity == current_postitions[symbol]
        order_type == "MKT"
        o1 == IF direction = "LONG" /\ cur_quantity = 0
              THEN OrderEvent(symbol, order_type, mkt_quantity, "BUY")
              ELSE None
        o2 == IF direction = "SHORT" /\ cur_quantity = 0
              THEN OrderEvent(symbol, order_type, mkt_quantity, "SELL")
              ELSE o1
        o3 == IF direction = "EXIT" /\ cur_quantity > 0
              THEN OrderEvent(symbol, order_type, abs(cur_quantity), "BUY")
              ELSE o2
        o4 == IF direction = "EXIT" /\ cur_quantity < 0
              THEN OrderEvent(symbol, order_type, abs(cur_quantity), "SELL")
              ELSE o3
    IN o4

generate_naive_order(signal) ==
    LET symbol == signal.symbol
        direction == signal.signal_type
        cur_quantity == current_postitions[symbol]
        order_type == "MKT"
        o1 == IF direction = "LONG" /\ cur_quantity = 0
              THEN OrderEvent(symbol, order_type, mkt_quantity, "BUY")
              ELSE None
        o2 == IF direction = "SHORT" /\ cur_quantity = 0
              THEN OrderEvent(symbol, order_type, mkt_quantity, "SELL")
              ELSE o1
        o3 == IF direction = "EXIT" /\ cur_quantity > 0
              THEN OrderEvent(symbol, order_type, abs(cur_quantity), "SELL")
              ELSE o2
        o4 == IF direction = "EXIT" /\ cur_quantity < 0
              THEN OrderEvent(symbol, order_type, abs(cur_quantity), "BUY")
              ELSE o3
    IN o4

\* self.events.put(order_event)
put(queue, item) == Append(queue, item)

update_signal(event) ==
    IF event.e_type = "SIGNAL"
    THEN /\ events' = put(events, generate_naive_order(event))
         /\ UNCHANGED <<all_positions, current_postitions, all_holdings,
                        current_holdings, latest_bars, equity_curve,
                        n_timeindex, net_filled>>
    ELSE UNCHANGED state

(***************************************************************************)
(* create_equity_curve_dataframe.  A float is an exact fraction num/den in *)
(* lowest terms with den > 0; NaN (and a division by zero) has den = 0.    *)
(***************************************************************************)
NaN == [num |-> 0, den |-> 0]

IsNaN(x) == x.den = 0

RECURSIVE GCD(_, _)
GCD(a, b) == IF b = 0 THEN a ELSE GCD(b, a % b)

\* n / d
Frac(n, d) ==
    IF d = 0 THEN NaN
    ELSE LET g == GCD(abs(n), abs(d))
             sgn == IF d < 0 THEN -1 ELSE 1
         IN [num |-> sgn * (n \div g), den |-> sgn * (d \div g)]

\* x * y, cancelling crosswise before multiplying
FracMul(x, y) ==
    IF IsNaN(x) \/ IsNaN(y) THEN NaN
    ELSE LET g1 == GCD(abs(x.num), y.den)
             g2 == GCD(abs(y.num), x.den)
         IN Frac((x.num \div g1) * (y.num \div g2),
                 (x.den \div g2) * (y.den \div g1))

\* 1.0 + x
OnePlus(x) == IF IsNaN(x) THEN NaN ELSE Frac(x.num + x.den, x.den)

\* Series.pct_change(): x[i]/x[i-1] - 1, NaN in the first row
pct_change(xs) ==
    [i \in 1..Len(xs) |->
        IF i = 1 THEN NaN ELSE Frac(xs[i] - xs[i-1], xs[i-1])]

RECURSIVE RunningProduct(_, _)
\* the product of the entries of xs[1..i] that are not NaN
RunningProduct(xs, i) ==
    IF i = 0 THEN Frac(1, 1)
    ELSE IF IsNaN(xs[i]) THEN RunningProduct(xs, i - 1)
    ELSE FracMul(RunningProduct(xs, i - 1), xs[i])

\* Series.cumprod(): NaN entries are skipped and stay NaN in the result
cumprod(xs) ==
    [i \in 1..Len(xs) |->
        IF IsNaN(xs[i]) THEN NaN ELSE RunningProduct(xs, i)]

\* the rows of the DataFrame built from a holdings history
Curve(holdings) ==
    LET total == [i \in 1..Len(holdings) |-> holdings[i]["total"]]
        returns == pct_change(total)
        onep == [i \in 1..Len(holdings) |-> OnePlus(returns[i])]
        equity == cumprod(onep)
    IN [i \in 1..Len(holdings) |->
          [row |-> holdings[i],
           returns |-> returns[i],
           equity_curve |-> equity[i]]]

create_equity_curve_dataframe ==
    /\ equity_curve' = Curve(all_holdings)
    /\ UNCHANGED <<all_positions, current_postitions, all_holdings,
                   current_holdings, events, latest_bars, n_timeindex,
                   net_filled>>

(***************************************************************************)
(* Next-state relation: any sequence of at most MaxCalls calls.            *)
(***************************************************************************)
Tick == n_calls < MaxCalls /\ n_calls' = n_calls + 1

BarStep ==
    /\ Tick
    /\ \E closes \in [SymbolSet -> Prices] : update_bars(closes)
    /\ UNCHANGED pc

TimeIndexStep ==
    /\ Tick
    /\ \E event \in MarketEvents : update_timeindex(event)
    /\ UNCHANGED pc

FillStep ==
    /\ Tick
    /\ \E event \in FillEvents \cup SignalEvents : update_fill(event)
    /\ UNCHANGED pc

SignalStep ==
    /\ Tick
    /\ \E event \in SignalEvents \cup MarketEvents : update_signal(event)
    /\ UNCHANGED pc

CurveStep ==
    /\ Tick
    /\ create_equity_curve_dataframe
    /\ UNCHANGED pc

Next == BarStep \/ TimeIndexStep \/ FillStep \/ SignalStep \/ CurveStep

Spec == Init /\ [][Next]_vars

(***************************************************************************)
(* A caller that runs the flip-avoidance scenario: any fills, bars and     *)
(* bar advances first; then, for a symbol that is flat, a LONG signal, the *)
(* fill of the order that signal put on the queue, and a second LONG       *)
(* signal.  Bars and bar advances may come in between.                     *)
(***************************************************************************)
FillOf(order) ==
    [e_type |-> "FILL", symbol |-> order.symbol,
     direction |-> order.direction, quantity |-> order.quantity]

LongSignal(s) == [e_type |-> "SIGNAL", symbol |-> s, signal_type |-> "LONG"]

FlipPrelude ==
    /\ pc.stage = 0
    /\ FillStep

FlipFirstSignal ==
    /\ pc.stage = 0
    /\ Tick
    /\ \E s \in SymbolSet :
          /\ current_postitions[s] = 0
          /\ update_signal(LongSignal(s))
          /\ pc' = [stage |-> 1, symbol |-> s]

FlipFill ==
    /\ pc.stage = 1
    /\ Tick
    /\ events[Len(events)].e_type = "ORDER"
    /\ update_fill(FillOf(events[Len(events)]))
    /\ pc' = [pc EXCEPT !.stage = 2]

FlipSecondSignal ==
    /\ pc.stage = 2
    /\ Tick
    /\ update_signal(LongSignal(pc.symbol))
    /\ pc' = [pc EXCEPT !.stage = 3]

NextFlip ==
    \/ BarStep \/ TimeIndexStep \/ FlipPrelude
    \/ FlipFirstSignal \/ FlipFill \/ FlipSecondSignal

SpecFlip == Init /\ [][NextFlip]_vars

(***************************************************************************)
(* The closed loop: signals come from the strategy, and the execution      *)
(* handler takes the items of the queue in order and answers every order   *)
(* with its exact fill (same symbol, direction and quantity).  In this     *)
(* scenario pc records the loop's position: stage is the number of queue   *)
(* items taken, origin the signal type that produced each queue item,      *)
(* symbol the symbol of the order just filled, exit_fill whether the last  *)
(* loop step filled an order emitted for an EXIT signal, and waited        *)
(* whether every signal so far was processed with no order left unfilled.  *)
(***************************************************************************)
LoopState ==
    IF "waited" \in DOMAIN pc THEN pc
    ELSE [stage |-> 0, symbol |-> "", origin |-> <<>>,
          exit_fill |-> FALSE, waited |-> TRUE]

OrderPending ==
    \E k \in (LoopState.stage + 1)..Len(events) : events[k].e_type = "ORDER"

LoopSignal ==
    /\ Tick
    /\ \E e \in SignalEvents :
          /\ update_signal(e)
          /\ pc' = [LoopState EXCEPT
                      !.origin = Append(@, e.signal_type),
                      !.symbol = "",
                      !.exit_fill = FALSE,
                      !.waited = @ /\ ~ OrderPending]

LoopExecute ==
    /\ Tick
    /\ LoopState.stage < Len(events)
    /\ LET k == LoopState.stage + 1
           item == events[k]
       IN IF item.e_type = "ORDER"
          THEN /\ update_fill(FillOf(item))
               /\ pc' = [LoopState EXCEPT
                           !.stage = k,
                           !.symbol = item.symbol,
                           !.exit_fill = (LoopState.origin[k] = "EXIT")]
          ELSE /\ UNCHANGED state
               /\ pc' = [LoopState EXCEPT
                           !.stage = k, !.symbol = "", !.exit_fill = FALSE]

NextLoop == BarStep \/ TimeIndexStep \/ LoopSignal \/ LoopExecute

SpecLoop == Init /\ [][NextLoop]_vars

(***************************************************************************)
(* The constructor called with any arguments.  In this scenario pc is the  *)
(* frame of the __init__ call: its arguments and the statement reached     *)
(* (stage 0 on entry, 1 when the fields are bound, then one more for each  *)
(* of the four structures built; at ConstructDone it has returned).  An    *)
(* attribute the constructor has not yet assigned is Unset.                *)
(***************************************************************************)
Unset == <<>>
ConstructDone == 5

SymbolLists == {<<>>, <<"AAPL">>, <<"AAPL", "MSFT">>}
Capitals == {0 - 100000, 0 - 1, 0, 100000}
StartDates == {0, 1}

\* dict((k,v) for k,v in [(s,0) for s in self.symbol_list])
ZeroDictOf(symbols) == [s \in {symbols[i] : i \in 1..Len(symbols)} |-> 0]

HoldingsOf(symbols, start, capital) ==
    ZeroDictOf(symbols) @@ ("datetime" :> start)
                        @@ ("cash" :> capital * Scale)
                        @@ ("commission" :> 0)
                        @@ ("total" :> capital * Scale)

InitConstruct ==
    /\ pc \in [stage : {0}, symbol_list : SymbolLists,
                start_date : StartDates, initial_capital : Capitals]
    /\ all_positions = Unset
    /\ current_postitions = Unset
    /\ all_holdings = Unset
    /\ current_holdings = Unset
    /\ equity_curve = Unset
    /\ events = <<>>
    /\ latest_bars = [s \in DOMAIN ZeroDictOf(pc.symbol_list) |->
                        [datetime |-> pc.start_date + 1, close |-> 10]]
    /\ n_timeindex = 0
    /\ net_filled = ZeroDictOf(pc.symbol_list)
    /\ n_calls = 0

\* self.bars, self.events, self.symbol_list, self.start_date,
\* self.initial_capital are bound to the arguments
BindFields ==
    /\ pc.stage = 0
    /\ pc' = [pc EXCEPT !.stage = 1]
    /\ UNCHANGED <<state, n_calls>>

\* self.all_positions = self.construct_all_positions()
BuildAllPositions ==
    /\ pc.stage = 1
    /\ all_positions' = << ZeroDictOf(pc.symbol_list)
                              @@ ("datetime" :> pc.start_date) >>
    /\ pc' = [pc EXCEPT !.stage = 2]
    /\ UNCHANGED <<current_postitions, all_holdings, current_holdings, events,
                   latest_bars, equity_curve, n_timeindex, net_filled, n_calls>>

\* self.current_postitions = dict(...)
BuildCurrentPositions ==
    /\ pc.stage = 2
    /\ current_postitions' = ZeroDictOf(pc.symbol_list)
    /\ pc' = [pc EXCEPT !.stage = 3]
    /\ UNCHANGED <<all_positions, all_holdings, current_holdings, events,
                   latest_bars, equity_curve, n_timeindex, net_filled, n_calls>>

\* self.all_holdings = self.construct_all_holdings()
BuildAllHoldings ==
    /\ pc.stage = 3
    /\ all_holdings' = << HoldingsOf(pc.symbol_list, pc.start_date,
                                     pc.initial_capital) >>
    /\ pc' = [pc EXCEPT !.stage = 4]
    /\ UNCHANGED <<all_positions, current_postitions, current_holdings, events,
                   latest_bars, equity_curve, n_timeindex, net_filled, n_calls>>

\* self.current_holdings = self.construct_current_holdings(); return
BuildCurrentHoldings ==
    /\ pc.stage = 4
    /\ current_holdings' = HoldingsOf(pc.symbol_list, pc.start_date,
                                      pc.initial_capital)
    /\ pc' = [pc EXCEPT !.stage = ConstructDone]
    /\ UNCHANGED <<all_positions, current_postitions, all_holdings, events,
                   latest_bars, equity_curve, n_timeindex, net_filled, n_calls>>

NextConstruct ==
    \/ BindFields \/ BuildAllPositions \/ BuildCurrentPositions
    \/ BuildAllHoldings \/ BuildCurrentHoldings

SpecConstruct == InitConstruct /\ [][NextConstruct]_vars

(***************************************************************************)
(* Properties                                                              *)
(***************************************************************************)
\* the sum of a holdings dict's per-symbol values
SymbolSum(h) == SumOver([s \in SymbolSet |-> h[s]], SymbolSet)

\* the order events among the items of a queue
IsOrder(item) == item.e_type = "ORDER"
OrdersOn(queue) == SelectSeq(queue, IsOrder)

\* C1: every entry of all_holdings has total = cash + the sum over all
\* symbols of that entry's per-symbol market value.
C1_AccountingIdentity ==
    \A i \in 1..Len(all_holdings) :
        all_holdings[i]["total"] =
            all_holdings[i]["cash"] + SymbolSum(all_holdings[i])

C1_Witness ==
    \E i \in 2..Len(all_holdings) : \E s \in SymbolSet :
        /\ all_holdings[i][s] /= 0
        /\ all_holdings[i]["cash"] /= initial_capital * Scale

\* C2: the current snapshot has total = cash + the sum over all symbols of
\* current_holdings[symbol], in every reachable state.
C2_CurrentIdentity ==
    current_holdings["total"] =
        current_holdings["cash"] + SymbolSum(current_holdings)

\* C3: the round trip.  With every other symbol flat and untouched: from the
\* initial state a BUY fill of 100 at close 10 leaves cash 98999.7 and
\* position 100; update_timeindex at close 12 then appends market value 1200
\* and total 100199.7; a SELL fill of 100 at close 12 then leaves position 0
\* and cash 100199.34; an entry appended while every position is zero has
\* total = cash.  And every BUY or SELL fill of q at close p changes cash by
\* -(dir*p*q) minus a commission that is paid (positive).
C3_OthersFlat(s) == \A o \in SymbolSet \ {s} : current_postitions[o] = 0

C3_FillOK(e) ==
    LET s == e.symbol
        paid == (current_holdings["cash"] - FillCost(e)) - current_holdings["cash"]'
    IN /\ paid > 0
       /\ ( /\ current_holdings = construct_current_holdings
            /\ current_postitions = ZeroDict
            /\ e.direction = "BUY" /\ e.quantity = 100 /\ Close(s) = 10 )
          => /\ current_holdings["cash"]' = 989997000
             /\ current_postitions[s]' = 100
       /\ ( /\ current_holdings["cash"] = 989997000
            /\ current_postitions[s] = 100 /\ C3_OthersFlat(s)
            /\ e.direction = "SELL" /\ e.quantity = 100 /\ Close(s) = 12 )
          => /\ current_postitions[s]' = 0
             /\ current_holdings["cash"]' = 1001993400

C3_AdvanceOK ==
    LET new == all_holdings'[Len(all_holdings')]
    IN /\ \A s \in SymbolSet :
            ( /\ current_holdings["cash"] = 989997000
              /\ current_postitions[s] = 100 /\ C3_OthersFlat(s)
              /\ Close(s) = 12 )
            => new[s] = 12000000 /\ new["total"] = 1001997000
       /\ current_postitions = ZeroDict => new["total"] = new["cash"]

C3_RoundTrip ==
    [][ /\ \A e \in FillEvents :
              (e.direction \in {"BUY", "SELL"} /\ update_fill(e)) => C3_FillOK(e)
        /\ \A ev \in MarketEvents : update_timeindex(ev) => C3_AdvanceOK ]_vars

\* C4: generate_naive_order returns BUY 100 for LONG on a zero position, SELL
\* 100 for SHORT on a zero position, SELL |p| for EXIT on p > 0, BUY |p| for
\* EXIT on p < 0, and no order otherwise; a returned order is a 'MKT' order
\* for the signal's symbol with a strictly positive quantity.
C4_Expected(signal) ==
    LET p == current_postitions[signal.symbol]
        t == signal.signal_type
        order(q, d) == [e_type |-> "ORDER", symbol |-> signal.symbol,
                        order_type |-> "MKT", quantity |-> q, direction |-> d]
    IN CASE t = "LONG" /\ p = 0 -> order(100, "BUY")
         [] t = "SHORT" /\ p = 0 -> order(100, "SELL")
         [] t = "EXIT" /\ p > 0 -> order(p, "SELL")
         [] t = "EXIT" /\ p < 0 -> order(0 - p, "BUY")
         [] OTHER -> None

C4_OrderPolicy ==
    \A signal \in SignalEvents :
        LET o == generate_naive_order(signal)
        IN /\ o = C4_Expected(signal)
           /\ o.e_type = "ORDER" =>
                 /\ o.order_type = "MKT"
                 /\ o.symbol = signal.symbol
                 /\ o.quantity > 0

C4_Witness ==
    /\ \E s \in SymbolSet : current_postitions[s] > 0
    /\ \E s \in SymbolSet : current_postitions[s] < 0
    /\ \E i \in 1..Len(events) :
          events[i].e_type = "ORDER" /\ events[i].quantity = 50

\* C5: handling a signal for which the policy yields no order leaves the
\* event queue exactly as it was: nothing is put on it, not even None.
C5_NoPlaceholder ==
    [][ \A event \in SignalEvents :
            (update_signal(event) /\ generate_naive_order(event) = None)
                => events' = events ]_vars

\* C6: from a zero position, a LONG signal, the fill of the resulting BUY
\* order and a second LONG signal for the same symbol emit exactly one BUY
\* order in total; the second signal emits no order, the position being no
\* longer zero.
C6_OneBuyOrder ==
    /\ pc.stage >= 1 =>
          OrdersOn(events) = << OrderEvent(pc.symbol, "MKT", 100, "BUY") >>
    /\ pc.stage >= 2 => current_postitions[pc.symbol] = 100
    /\ pc.stage = 3 => Len(events) = 2

C6_Witness ==
    /\ pc.stage = 3
    /\ current_postitions[pc.symbol] /= 0

\* C7: len(all_positions) = len(all_holdings) = 1 + the number of
\* update_timeindex calls made; fills and signals change neither length.
C7_HistoryLength ==
    /\ Len(all_positions) = 1 + n_timeindex
    /\ Len(all_holdings) = 1 + n_timeindex

C7_Witness ==
    /\ n_timeindex >= 2
    /\ Len(events) >= 1
    /\ \E s \in SymbolSet : current_postitions[s] /= 0

C9_AppendOnly ==
    [][ /\ Len(all_positions') >= Len(all_positions)
        /\ Len(all_holdings') >= Len(all_holdings)
        /\ \A i \in 1..Len(all_positions) : all_positions'[i] = all_positions[i]
        /\ \A i \in 1..Len(all_holdings) : all_holdings'[i] = all_holdings[i]
      ]_vars

C9_Witness ==
    /\ Len(all_positions) >= 2
    /\ Len(equity_curve) >= 2
    /\ \E s \in SymbolSet :
          current_postitions[s] /= all_positions[Len(all_positions)][s]

\* C10: the entry appended by an update_timeindex call differs from the
\* entry before it, per symbol, by the net signed quantity (+q per BUY, -q
\* per SELL) of the fills applied since the previous call; and a step that
\* changes the current positions (a fill) changes no entry of the history.
C10_EntryReflectsFills ==
    [][ /\ Len(all_positions') = Len(all_positions) + 1 =>
              \A s \in SymbolSet :
                  all_positions'[Len(all_positions')][s]
                      - all_positions[Len(all_positions)][s] = net_filled[s]
        /\ current_postitions' /= current_postitions =>
              /\ all_positions' = all_positions
              /\ all_holdings' = all_holdings
      ]_vars

C10_Witness ==
    /\ Len(all_positions) >= 3
    /\ \E s \in SymbolSet : all_positions[3][s] /= all_positions[2][s]
    /\ \E s \in SymbolSet :
          current_postitions[s] /= all_positions[Len(all_positions)][s]

\* C11: applying a fill whose direction is neither 'BUY' nor 'SELL' fails
\* with InvalidDirection: no step of the program is update_fill returning
\* normally for such a fill.
C11_InvalidDirectionFails ==
    [][ \A e \in FillEvents :
            e.direction \notin {"BUY", "SELL"} => ~ update_fill(e) ]_vars

\* C12: when every position is booked in current_holdings at the close that
\* update_timeindex uses (the fills were costed at that close), the
\* current_holdings total just before update_timeindex equals the total of
\* the entry it appends.
C12_TotalsAgree ==
    [][ ( /\ Len(all_holdings') = Len(all_holdings) + 1
          /\ \A s \in SymbolSet : current_holdings[s] = market_value(s) )
        => all_holdings'[Len(all_holdings')]["total"] = current_holdings["total"]
      ]_vars

\* C13: update_timeindex only reads and appends: a step that appends a
\* history entry leaves current_postitions and every field of
\* current_holdings (per-symbol values, cash, commission, total) as they
\* were.
C13_ReadAndAppendOnly ==
    [][ ( \/ Len(all_holdings') = Len(all_holdings) + 1
          \/ Len(all_positions') = Len(all_positions) + 1 )
        => /\ current_postitions' = current_postitions
           /\ \A k \in DOMAIN current_holdings :
                 current_holdings'[k] = current_holdings[k]
           /\ DOMAIN current_holdings' = DOMAIN current_holdings
      ]_vars

\* an entry has been appended while a position was open at a close other
\* than the one its fills were costed at
C13_Witness ==
    /\ Len(all_holdings) >= 2
    /\ \E s \in SymbolSet :
          /\ all_holdings[Len(all_holdings)][s] /= 0
          /\ all_positions[Len(all_positions)][s] = current_postitions[s]
          /\ all_holdings[Len(all_holdings)][s] /= current_holdings[s]
          /\ current_holdings["total"] /= all_holdings[Len(all_holdings)]["total"]

\* C14: the entry appended by update_timeindex carries the cash and the
\* commission of current_holdings at call time and, for every symbol, the
\* market value position * latest close, short positions included: a SELL
\* fill of 50 from a zero position leaves the position at -50, the entry
\* then appended carries -50 * close for it, and of two successive entries
\* appended for that lone short position with the same cash, the one taken
\* at the higher close has the strictly lower total.
C14_Appended == Len(all_holdings') = Len(all_holdings) + 1

C14_LoneShort(pos, s) ==
    pos[s] = -50 /\ \A o \in SymbolSet \ {s} : pos[o] = 0

C14_EntryMarkedToMarket ==
    [][ LET new == all_holdings'[Len(all_holdings')]
            last == all_holdings[Len(all_holdings)]
        IN /\ C14_Appended =>
                /\ new["cash"] = current_holdings["cash"]
                /\ new["commission"] = current_holdings["commission"]
                /\ \A s \in SymbolSet :
                      new[s] = current_postitions[s] * latest_bars[s].close * Scale
           /\ \A s \in SymbolSet :
                 ( /\ ~ C14_Appended
                   /\ net_filled'[s] = net_filled[s] - 50
                   /\ current_postitions[s] = 0 )
                 => current_postitions'[s] = -50
           /\ \A s \in SymbolSet :
                 ( /\ C14_Appended
                   /\ C14_LoneShort(current_postitions, s)
                   /\ C14_LoneShort(all_positions[Len(all_positions)], s)
                   /\ last["cash"] = current_holdings["cash"] )
                 => /\ new[s] = (0 - 50) * latest_bars[s].close * Scale
                    /\ new[s] < last[s] => new["total"] < last["total"]
                    /\ new[s] > last[s] => new["total"] > last["total"]
                    /\ new[s] = last[s] => new["total"] = last["total"]
      ]_vars

\* a lone short position of 50 has been marked at two closes, the later one
\* higher, and the later total is the lower one
C14_Witness ==
    LET n == Len(all_holdings)
    IN /\ n >= 3
       /\ \E s \in SymbolSet :
             /\ C14_LoneShort(all_positions[n], s)
             /\ C14_LoneShort(all_positions[n - 1], s)
             /\ all_holdings[n]["cash"] = all_holdings[n - 1]["cash"]
             /\ all_holdings[n][s] < all_holdings[n - 1][s]
             /\ all_holdings[n]["total"] < all_holdings[n - 1]["total"]

\* C16: in the equity curve built from totals t[0..n], the period return of
\* row i >= 1 is t[i]/t[i-1] - 1 and that of row 0 is undefined; the
\* cumulative equity multiplier of row i is the product over j in 1..i of
\* (1 + period return of row j), defined and equal to 1.0 at row 0; the rows
\* are the entries of all_holdings, which building the curve leaves as they
\* were, so that building it again on the same history gives the same curve.
RECURSIVE C16_Product(_, _)
\* the product over j in 2..i (rows 1..i-1 counted from 0) of 1 + returns[j]
C16_Product(returns, i) ==
    IF i <= 1 THEN Frac(1, 1)
    ELSE FracMul(C16_Product(returns, i - 1), OnePlus(returns[i]))

C16_RowsOK(first) ==
    LET n == Len(equity_curve)
        t == [i \in 1..n |-> equity_curve[i].row["total"]]
        r == [i \in 1..n |-> equity_curve[i].returns]
    IN /\ n <= Len(all_holdings)
       /\ \A i \in 1..n : equity_curve[i].row = all_holdings[i]
       /\ IsNaN(r[1])
       /\ \A i \in 2..n : r[i] = Frac(t[i] - t[i-1], t[i-1])
       /\ equity_curve[1].equity_curve = first
       /\ \A i \in 2..n : equity_curve[i].equity_curve = C16_Product(r, i)
       /\ n = Len(all_holdings) => Curve(all_holdings) = equity_curve

C16_EquityCurve ==
    equity_curve /= <<>> => C16_RowsOK(Frac(1, 1))

\* C17: cash conservation.  In every reachable state current_holdings' cash
\* plus its commission plus the sum over all symbols of its symbol values
\* equals initial_capital.
C17_CashConservation ==
    current_holdings["cash"] + current_holdings["commission"]
        + SymbolSum(current_holdings) = initial_capital * Scale

\* both a purchase and a sale have been booked, and commission with them
C17_Witness ==
    /\ current_holdings["commission"] /= 0
    /\ current_holdings["cash"] /= initial_capital * Scale
    /\ \E s \in SymbolSet : current_holdings[s] > 0
    /\ \E s \in SymbolSet : current_holdings[s] < 0

\* C18: the cumulative commission never decreases and is never negative: a
\* BUY or SELL fill (positive quantity, positive close) leaves
\* current_holdings' commission strictly greater than before, and the
\* commission of successive all_holdings entries is non-decreasing.
C18_CommissionMonotone ==
    [][ /\ current_holdings["commission"]' >= current_holdings["commission"]
        /\ current_holdings["commission"]' >= 0
        /\ current_postitions' /= current_postitions =>
              current_holdings["commission"]' > current_holdings["commission"]
        /\ \A i \in 2..Len(all_holdings') :
              all_holdings'[i]["commission"] >= all_holdings'[i-1]["commission"]
      ]_vars

\* C19: in every reachable state current_holdings' total equals its cash.
C19_TotalIsCash ==
    current_holdings["total"] = current_holdings["cash"]

\* fills have moved cash while a position is open and marked in the history
C19_Witness ==
    /\ current_holdings["cash"] /= initial_capital * Scale
    /\ Len(all_holdings) >= 2
    /\ \E s \in SymbolSet :
          /\ current_postitions[s] /= 0
          /\ all_holdings[Len(all_holdings)][s] /= 0

\* C20: the closed loop.  If the only fills applied are the exact fills of
\* the orders emitted by update_signal, and every emitted order is filled
\* before the next signal is processed, every symbol's position is -100, 0
\* or +100, and the fill of an order emitted for an EXIT signal leaves that
\* symbol's position at exactly 0.
C20_ClosedLoop ==
    LoopState.waited =>
        /\ \A s \in SymbolSet : current_postitions[s] \in {0 - 100, 0, 100}
        /\ LoopState.exit_fill => current_postitions[LoopState.symbol] = 0

\* an order emitted for an EXIT signal has just been filled, every order
\* having been filled before the next signal
C20_Witness ==
    /\ LoopState.waited
    /\ LoopState.exit_fill
    /\ all_positions[Len(all_positions)][LoopState.symbol] /= 0

\* C20, last sentence: without the waiting, two LONG signals processed back
\* to back have emitted two BUY orders and their fills have brought the
\* position to 200.
C20_DoubleBuy ==
    /\ ~ LoopState.waited
    /\ \E s \in SymbolSet :
          /\ current_postitions[s] = 200
          /\ \E k \in 1..(Len(events) - 1) :
                /\ LoopState.origin[k] = "LONG" /\ LoopState.origin[k+1] = "LONG"
                /\ events[k] = OrderEvent(s, "MKT", 100, "BUY")
                /\ events[k+1] = OrderEvent(s, "MKT", 100, "BUY")

\* C15: construction fails, and no engine state is created, when the symbol
\* universe is empty or when initial_capital is not a valid amount (here: is
\* negative): the constructor then assigns no structure and never returns a
\* portfolio.
C15_ValidArguments ==
    /\ pc.symbol_list /= <<>>
    /\ pc.initial_capital >= 0

C15_ConstructionValidates ==
    ~ C15_ValidArguments =>
        /\ pc.stage /= ConstructDone
        /\ Len(all_positions) = 0
        /\ Len(all_holdings) = 0
        /\ DOMAIN current_postitions = {}
        /\ DOMAIN current_holdings = {}

====
